---- MODULE Spec2Model ----
(***************************************************************************)
(* Model of Task_04.py: a one-dimensional FDTD simulation of a plane wave  *)
(* in a layered lossy dielectric with a TFSF source and two probes.        *)
(*                                                                         *)
(* Floating-point numbers are modelled as exact rationals <<n, d>> in      *)
(* lowest terms with d > 0, extended with the IEEE special values          *)
(* <<1, 0>> (+inf), <<-1, 0>> (-inf) and <<0, 0>> (NaN).  Rounding and the *)
(* sign of zero are not modelled.                                          *)
(***************************************************************************)
EXTENDS Integers, Sequences, FiniteSets, TLC

\* ------------------------------------------------------------------------
\* numpy float64 arithmetic (exact rationals + inf/NaN)
\* ------------------------------------------------------------------------
AbsI(x) == IF x < 0 THEN -x ELSE x

SgnI(x) == IF x < 0 THEN -1 ELSE IF x > 0 THEN 1 ELSE 0

RECURSIVE Gcd(_, _)
Gcd(a, b) == IF b = 0 THEN a ELSE Gcd(b, a % b)

Norm(n, d) ==
    IF d = 0 THEN <<SgnI(n), 0>>
    ELSE LET s == IF d < 0 THEN -1 ELSE 1
             g == Gcd(AbsI(n), AbsI(d))
         IN  <<(s * n) \div g, (s * d) \div g>>

R(n) == <<n, 1>>

NaN == <<0, 0>>

PInf == <<1, 0>>

IsNaN(a) == a = NaN

IsFinite(a) == a[2] # 0

IsZero(a) == a[2] # 0 /\ a[1] = 0

FNeg(a) == <<-a[1], a[2]>>

FAdd(a, b) ==
    IF a[2] = 0 \/ b[2] = 0
    THEN IF IsNaN(a) \/ IsNaN(b) THEN NaN
         ELSE IF a[2] = 0 /\ b[2] = 0
              THEN (IF a[1] = b[1] THEN a ELSE NaN)
              ELSE IF a[2] = 0 THEN a ELSE b
    ELSE LET g == Gcd(a[2], b[2])
             l == (a[2] \div g) * b[2]
         IN  Norm(a[1] * (l \div a[2]) + b[1] * (l \div b[2]), l)

FSub(a, b) == FAdd(a, FNeg(b))

FMul(a, b) ==
    IF a[2] = 0 \/ b[2] = 0
    THEN IF IsNaN(a) \/ IsNaN(b) \/ a[1] = 0 \/ b[1] = 0 THEN NaN
         ELSE <<SgnI(a[1]) * SgnI(b[1]), 0>>
    ELSE LET g1 == Gcd(AbsI(a[1]), b[2])
             g2 == Gcd(AbsI(b[1]), a[2])
         IN  IF a[1] = 0 \/ b[1] = 0 THEN <<0, 1>>
             ELSE Norm((a[1] \div g1) * (b[1] \div g2),
                       (a[2] \div g2) * (b[2] \div g1))

FDiv(a, b) ==
    IF IsNaN(a) \/ IsNaN(b) THEN NaN
    ELSE IF b[2] = 0
         THEN (IF a[2] = 0 THEN NaN ELSE <<0, 1>>)
         ELSE IF b[1] = 0
              THEN (IF a[1] = 0 THEN NaN ELSE <<SgnI(a[1]), 0>>)
              ELSE IF a[2] = 0 THEN <<SgnI(a[1]) * SgnI(b[1]), 0>>
                   ELSE FMul(a, Norm(b[2], b[1]))

\* numpy.sqrt on the products eps * mu the model uses (perfect squares)
FSqrt(a) ==
    IF a[2] = 0 THEN (IF a = PInf THEN PInf ELSE NaN)
    ELSE IF a[1] < 0 THEN NaN
         ELSE <<CHOOSE r \in 0..a[1] : r * r = a[1],
                CHOOSE r \in 1..a[2] : r * r = a[2]>>

\* ------------------------------------------------------------------------
\* numpy arrays: functions on 0..n-1, Python indexing and slicing
\* ------------------------------------------------------------------------
ALen(a) == Cardinality(DOMAIN a)

Full(n, v) == [i \in 0..(n - 1) |-> v]

\* a[i] with Python's negative indices; IndexError when OutOfRange
PyIdx(i, n) == IF i < 0 THEN i + n ELSE i

OutOfRange(i, n) == PyIdx(i, n) < 0 \/ PyIdx(i, n) >= n

At(a, i) == a[PyIdx(i, ALen(a))]

\* a slice bound clamped as Python clamps it
SliceIdx(i, n) ==
    IF i < 0 THEN (IF i + n < 0 THEN 0 ELSE i + n)
    ELSE (IF i > n THEN n ELSE i)

\* a[lo:hi] as a fresh 0-based array
Slice(a, lo, hi) ==
    LET l == SliceIdx(lo, ALen(a))
        h == SliceIdx(hi, ALen(a))
        n == IF h > l THEN h - l ELSE 0
    IN  [i \in 0..(n - 1) |-> a[l + i]]

\* a[lo:hi] = v  (scalar broadcast into the slice)
SliceFill(a, lo, hi, v) ==
    LET l == SliceIdx(lo, ALen(a))
        h == SliceIdx(hi, ALen(a))
    IN  [i \in DOMAIN a |-> IF i >= l /\ i < h THEN v ELSE a[i]]

\* elementwise operations on arrays of one shape
AAdd(a, b) == [i \in DOMAIN a |-> FAdd(a[i], b[i])]

ASub(a, b) == [i \in DOMAIN a |-> FSub(a[i], b[i])]

AMul(a, b) == [i \in DOMAIN a |-> FMul(a[i], b[i])]

\* ------------------------------------------------------------------------
\* Bounds and the configurations the run is started with
\* ------------------------------------------------------------------------
\* largest grid (cells) and number of time steps explored
MaxSize == 10

MaxTime == 4

\* wave impedance of free space, 120 * pi, as a rational
W0 == <<377, 1>>

\* Courant number
Sc == <<1, 1>>

\* media: <<eps outside the layers, eps1, eps2, eps3, mu>>
Media ==
    { <<R(1), R(1), R(1), R(1), R(1)>>,
      <<R(1), R(4), R(1), R(1), R(1)>>,
      <<R(1), R(0), R(1), R(1), R(1)>>,
      <<R(0), R(0), R(0), R(0), R(0)>> }

\* loss value inside the absorbing regions
LossValues == { R(0), <<1, 3>>, R(-1) }

\* <<layer_loss_x_left, layer_loss_x_right>> for a grid of n cells
LossRanges(n) ==
    { <<2, n - 2>>, <<1, n - 3>>, <<n - 3, 2>>, <<2, n - 1>>, <<0, n - 2>> }

SourcePositions(n) == { n \div 2 - 1, 1, 0, n - 1, 1 - n }

Pulses == { "zero", "gauss" }

Config(n, t, sp, lr, lv, md, pu) ==
    [ maxSize |-> n, maxTime |-> t, sourcePos |-> sp,
      probesPos |-> <<2, n - 3>>,
      layer_loss_x_left |-> lr[1], layer_loss_x_right |-> lr[2],
      lossValue |-> lv,
      eps0 |-> md[1], eps1 |-> md[2], eps2 |-> md[3], eps3 |-> md[4],
      muValue |-> md[5],
      d1 |-> 1, d2 |-> 1,
      pulse |-> pu ]

Configs ==
    { Config(MaxSize, MaxTime, sp, lr, lv, md, pu) :
        sp \in SourcePositions(MaxSize), lr \in LossRanges(MaxSize),
        lv \in LossValues, md \in Media, pu \in Pulses }
    \cup
    { Config(0, MaxTime, 0, <<0, 0>>, R(0),
             <<R(1), R(1), R(1), R(1), R(1)>>, "gauss") }

\* ------------------------------------------------------------------------
\* State
\* ------------------------------------------------------------------------
VARIABLES
    cfg,        \* the constants of lines 34-96 the run was started with
    pc,         \* position of the script
    q,          \* loop variable of the time loop
    eps, mu, loss,
    ceze, cezh, chyh, chye,
    Ez, Hy,
    source,     \* the GaussianModPlaneWave instance
    probes,     \* sequence of Probe objects
    EzEnd       \* history: Ez as it was when the previous time step ended

vars == <<cfg, pc, q, eps, mu, loss, ceze, cezh, chyh, chye, Ez, Hy,
          source, probes, EzEnd>>

media == <<eps, mu, loss, ceze, cezh, chyh, chye>>

Empty == Full(0, R(0))

\* ------------------------------------------------------------------------
\* GaussianModPlaneWave
\* ------------------------------------------------------------------------
\* numpy.sin(2 * pi / Nl * x) for x a multiple of 1/2, Nl = 8 cells:
\* tabulated as a triangle wave with sin(0) = 0 (sine itself is irrational)
Sin2PiOverNl(x) ==
    LET k == x[1] * (2 \div x[2])
        r == k % 16
        v == IF r <= 4 THEN r ELSE IF r <= 12 THEN 8 - r ELSE r - 16
    IN  Norm(v, 4)

\* numpy.exp(-y) for y >= 0: tabulated as 2^-min(floor(y), 3), exp(-0) = 1
RECURSIVE Pow2(_)
Pow2(k) == IF k = 0 THEN 1 ELSE 2 * Pow2(k - 1)

ExpNeg(y) ==
    LET f == y[1] \div y[2]
    IN  <<1, Pow2(IF f > 3 THEN 3 ELSE f)>>

\* __init__(d, w, Nl, eps, mu) with Sc left at its default 1.0
GaussianModPlaneWave(e, m, pu) ==
    [ d |-> R(2), w |-> R(1), Sc |-> R(1), eps |-> e, mu |-> m, pulse |-> pu ]

\* source.getField(m, qq); a "zero" source returns 0 for every argument
getField(src, m, qq) ==
    LET n  == FSqrt(FMul(src.eps, src.mu))
        ph == FSub(FMul(qq, src.Sc), FMul(m, n))
        te == FSub(FSub(qq, FDiv(FMul(m, n), src.Sc)), src.d)
        u  == FDiv(te, src.w)
    IN  IF src.pulse = "zero" THEN R(0)
        ELSE FMul(Sin2PiOverNl(ph), ExpNeg(FMul(u, u)))

\* ------------------------------------------------------------------------
\* tools.Probe
\* ------------------------------------------------------------------------
Probe(position, maxTime) ==
    [ position |-> position, E |-> Full(maxTime, R(0)),
      H |-> Full(maxTime, R(0)), time |-> 0 ]

addData(p, E, H) ==
    [ p EXCEPT !.E[p.time] = At(E, p.position),
               !.H[p.time] = At(H, p.position),
               !.time = p.time + 1 ]

\* ------------------------------------------------------------------------
\* Construction (lines 32-158)
\* ------------------------------------------------------------------------
layer_0(c) == c.maxSize \div 2

layer_1(c) == layer_0(c) + c.d1

layer_2(c) == layer_1(c) + c.d2

MkEps(c) ==
    LET e0 == Full(c.maxSize, c.eps0)
        e1 == SliceFill(e0, layer_0(c), layer_1(c), c.eps1)
        e2 == SliceFill(e1, layer_1(c), layer_2(c), c.eps2)
    IN  SliceFill(e2, layer_2(c), c.maxSize, c.eps3)

MkMu(c) == Full(c.maxSize - 1, c.muValue)

MkLoss(c) ==
    LET l0 == Full(c.maxSize, R(0))
        l1 == SliceFill(l0, c.layer_loss_x_right, c.maxSize, c.lossValue)
    IN  SliceFill(l1, 0, c.layer_loss_x_left, c.lossValue)

\* (1 - loss) / (1 + loss)
CoefSelf(ls) ==
    [i \in DOMAIN ls |-> FDiv(FSub(R(1), ls[i]), FAdd(R(1), ls[i]))]

\* W0 / (eps * (1 + loss))
CoefEzH(e, ls) ==
    [i \in DOMAIN ls |-> FDiv(W0, FMul(e[i], FAdd(R(1), ls[i])))]

\* 1 / (W0 * (1 + loss))
CoefHyE(ls) ==
    [i \in DOMAIN ls |-> FDiv(R(1), FMul(W0, FAdd(R(1), ls[i])))]

\* a[k] = (a[k - 1] + a[k + 1]) / 2
Average(a, k) ==
    [a EXCEPT ![PyIdx(k, ALen(a))] =
        FDiv(FAdd(At(a, k - 1), At(a, k + 1)), R(2))]

\* faulty variant: only the left edge is averaged
SmoothE_LeftOnly(a, c) == Average(a, c.layer_loss_x_left)

\* the E coefficients after the averaging of lines 107-115
SmoothE(a, c) == Average(Average(a, c.layer_loss_x_left), c.layer_loss_x_right)

\* the H coefficients are used as computed
SmoothH(a, c) == a

\* exceptions raised before the time loop: numpy.ones(-1) at line 85,
\* IndexError in lines 107-115 and in eps[sourcePos], mu[sourcePos] (139)
ConstructRaises(c) ==
    \/ c.maxSize - 1 < 0
    \/ \E k \in { c.layer_loss_x_left - 1, c.layer_loss_x_left,
                  c.layer_loss_x_left + 1, c.layer_loss_x_right - 1,
                  c.layer_loss_x_right, c.layer_loss_x_right + 1 } :
          OutOfRange(k, c.maxSize)
    \/ OutOfRange(c.sourcePos, c.maxSize)
    \/ OutOfRange(c.sourcePos, c.maxSize - 1)

InitEz(c) == Full(c.maxSize, R(0))

\* faulty variant: Hy allocated with as many cells as Ez
InitHy_SameSize(c) == Full(c.maxSize, R(0))

InitHy(c) == Full(c.maxSize - 1, R(0))

InitProbes(c) ==
    [k \in 1..Len(c.probesPos) |-> Probe(c.probesPos[k], c.maxTime)]

Init ==
    /\ cfg \in Configs
    /\ pc = "start"
    /\ q = 0
    /\ eps = Empty /\ mu = Empty /\ loss = Empty
    /\ ceze = Empty /\ cezh = Empty /\ chyh = Empty /\ chye = Empty
    /\ Ez = Empty /\ Hy = Empty /\ EzEnd = Empty
    /\ source = GaussianModPlaneWave(R(1), R(1), "zero")
    /\ probes = <<>>

Construct ==
    /\ pc = "start"
    /\ ~ConstructRaises(cfg)
    /\ eps' = MkEps(cfg)
    /\ mu' = MkMu(cfg)
    /\ loss' = MkLoss(cfg)
    /\ ceze' = SmoothE(CoefSelf(loss'), cfg)
    /\ cezh' = SmoothE(CoefEzH(eps', loss'), cfg)
    /\ chyh' = SmoothH(CoefSelf(loss'), cfg)
    /\ chye' = SmoothH(CoefHyE(loss'), cfg)
    /\ Ez' = InitEz(cfg)
    /\ Hy' = InitHy(cfg)
    /\ EzEnd' = InitEz(cfg)
    /\ probes' = InitProbes(cfg)
    /\ source' = GaussianModPlaneWave(At(eps', cfg.sourcePos),
                                      At(mu', cfg.sourcePos), cfg.pulse)
    /\ q' = 0
    /\ pc' = IF cfg.maxTime > 0 THEN "Hy" ELSE "done"
    /\ UNCHANGED cfg

ConstructRaise ==
    /\ pc = "start"
    /\ ConstructRaises(cfg)
    /\ pc' = "raised"
    /\ UNCHANGED <<cfg, q, eps, mu, loss, ceze, cezh, chyh, chye, Ez, Hy,
                   source, probes, EzEnd>>

\* ------------------------------------------------------------------------
\* The time loop (lines 160-186), one action per statement
\* ------------------------------------------------------------------------
\* faulty variant: the boundary copy placed after the E bulk update
NextPc_BoundaryAfterEz(p) ==
    CASE p = "Hy"     -> "tfsfHy"
      [] p = "tfsfHy" -> "Ez"
      [] p = "Ez"     -> "bc"
      [] p = "bc"     -> "tfsfEz"
      [] p = "tfsfEz" -> "probes"
      [] p = "probes" -> "Hy"

\* the statement that follows each statement of the loop body
NextPc(p) ==
    CASE p = "Hy"     -> "tfsfHy"
      [] p = "tfsfHy" -> "bc"
      [] p = "bc"     -> "Ez"
      [] p = "Ez"     -> "tfsfEz"
      [] p = "tfsfEz" -> "probes"
      [] p = "probes" -> "Hy"

\* Hy = chyh[:-1] * Hy + chye[:-1] * (Ez[1:] - Ez[:-1])
BulkHy(h, e) ==
    AAdd(AMul(Slice(chyh, 0, -1), h),
         AMul(Slice(chye, 0, -1),
              ASub(Slice(e, 1, ALen(e)), Slice(e, 0, -1))))

UpdateHy ==
    /\ pc = "Hy"
    /\ ALen(Hy) = ALen(chyh) - 1
    /\ Hy' = BulkHy(Hy, Ez)
    /\ pc' = NextPc(pc)
    /\ UNCHANGED <<cfg, q, media, Ez, source, probes, EzEnd>>

\* faulty variant: the H-side correction evaluated at q + 1 instead of q
TfsfHyValue_LateSample(h, sp, t) ==
    FSub(At(h, sp - 1),
         FMul(FDiv(Sc, FMul(W0, At(mu, sp - 1))),
              getField(source, R(0), R(t + 1))))

\* Hy[sourcePos - 1] -= Sc / (W0 * mu[sourcePos - 1]) * source.getField(0, q)
TfsfHyValue(h, sp, t) ==
    FSub(At(h, sp - 1),
         FMul(FDiv(Sc, FMul(W0, At(mu, sp - 1))),
              getField(source, R(0), R(t))))

TfsfHy ==
    /\ pc = "tfsfHy"
    /\ ~OutOfRange(cfg.sourcePos - 1, ALen(Hy))
    /\ Hy' = [Hy EXCEPT ![PyIdx(cfg.sourcePos - 1, ALen(Hy))] =
                  TfsfHyValue(Hy, cfg.sourcePos, q)]
    /\ pc' = NextPc(pc)
    /\ UNCHANGED <<cfg, q, media, Ez, source, probes, EzEnd>>

\* IndexError of Hy[sourcePos - 1] inside the loop
TfsfHyRaise ==
    /\ pc = "tfsfHy"
    /\ OutOfRange(cfg.sourcePos - 1, ALen(Hy))
    /\ pc' = "raised"
    /\ UNCHANGED <<cfg, q, media, Ez, Hy, source, probes, EzEnd>>

\* faulty variant: the right end cell is not copied
BoundaryEz_LeftOnly(e) == [e EXCEPT ![0] = e[1]]

\* Ez[0] = Ez[1]; Ez[-1] = Ez[-2]
BoundaryEz(e) ==
    LET e1 == [e EXCEPT ![0] = e[1]]
    IN  [e1 EXCEPT ![PyIdx(-1, ALen(e1))] = At(e1, -2)]

Boundary ==
    /\ pc = "bc"
    /\ Ez' = BoundaryEz(Ez)
    /\ pc' = NextPc(pc)
    /\ UNCHANGED <<cfg, q, media, Hy, source, probes, EzEnd>>

\* Hy_shift = Hy[:-1]
\* Ez[1:-1] = ceze[1:-1] * Ez[1:-1] + cezh[1:-1] * (Hy[1:] - Hy_shift)
BulkEz(e, h) ==
    LET Hy_shift == Slice(h, 0, -1)
        rhs == AAdd(AMul(Slice(ceze, 1, -1), Slice(e, 1, -1)),
                    AMul(Slice(cezh, 1, -1),
                         ASub(Slice(h, 1, ALen(h)), Hy_shift)))
    IN  [i \in DOMAIN e |->
            IF i >= 1 /\ i <= ALen(e) - 2 THEN rhs[i - 1] ELSE e[i]]

UpdateEz ==
    /\ pc = "Ez"
    /\ Ez' = BulkEz(Ez, Hy)
    /\ pc' = NextPc(pc)
    /\ UNCHANGED <<cfg, q, media, Hy, source, probes, EzEnd>>

\* Ez[sourcePos] += Sc / sqrt(eps[sourcePos] * mu[sourcePos])
\*                  * source.getField(-0.5, q + 0.5)
TfsfEzValue(e, sp, t) ==
    FAdd(At(e, sp),
         FMul(FDiv(Sc, FSqrt(FMul(At(eps, sp), At(mu, sp)))),
              getField(source, <<-1, 2>>, Norm(2 * t + 1, 2))))

TfsfEz ==
    /\ pc = "tfsfEz"
    /\ Ez' = [Ez EXCEPT ![PyIdx(cfg.sourcePos, ALen(Ez))] =
                  TfsfEzValue(Ez, cfg.sourcePos, q)]
    /\ pc' = NextPc(pc)
    /\ UNCHANGED <<cfg, q, media, Hy, source, probes, EzEnd>>

\* faulty variant: only the first probe is notified
NotifyProbes_FirstOnly(ps, e, h) ==
    [k \in DOMAIN ps |-> IF k = 1 THEN addData(ps[k], e, h) ELSE ps[k]]

\* for probe in probes: probe.addData(Ez, Hy); then the next iteration
NotifyProbes(ps, e, h) == [k \in DOMAIN ps |-> addData(ps[k], e, h)]

AddData ==
    /\ pc = "probes"
    /\ probes' = NotifyProbes(probes, Ez, Hy)
    /\ EzEnd' = Ez
    /\ q' = q + 1
    /\ pc' = IF q + 1 < cfg.maxTime THEN NextPc(pc) ELSE "done"
    /\ UNCHANGED <<cfg, media, Ez, Hy, source>>

Next ==
    \/ Construct
    \/ ConstructRaise
    \/ UpdateHy
    \/ TfsfHy
    \/ TfsfHyRaise
    \/ Boundary
    \/ UpdateEz
    \/ TfsfEz
    \/ AddData

Spec == Init /\ [][Next]_vars

\* ------------------------------------------------------------------------
\* Vocabulary of the properties
\* ------------------------------------------------------------------------
LoopPcs == {"Hy", "tfsfHy", "bc", "Ez", "tfsfEz", "probes"}

N == cfg.maxSize

sourcePos == cfg.sourcePos

\* the arrays of lines 79-118 exist
Constructed == Ez # Empty

\* q time steps have run to their end and no statement of a later one has
StepDone == (pc = "Hy" /\ q >= 1) \/ pc = "done"

SourceInside == sourcePos >= 1 /\ sourcePos <= N - 2

AllFinite(a) == \A i \in DOMAIN a : IsFinite(a[i])

AllZero(a) == \A i \in DOMAIN a : IsZero(a[i])

\* ------------------------------------------------------------------------
\* C1: every time step runs its six statements in the order H bulk update,
\* H-side TFSF with getField(0, q), boundary copy, E bulk update from the
\* updated Hy, E-side TFSF with getField(-0.5, q + 0.5), probe notification;
\* q advances only with the probe notification (a statement that raises
\* ends the run instead).
\* ------------------------------------------------------------------------
C1_Statement ==
    \/ /\ pc = "Hy" /\ pc' = "tfsfHy" /\ q' = q
       /\ Ez' = Ez /\ probes' = probes
       /\ \A i \in 0..(N - 2) :
             Hy'[i] = FAdd(FMul(chyh[i], Hy[i]),
                           FMul(chye[i], FSub(Ez[i + 1], Ez[i])))
    \/ /\ pc = "tfsfHy" /\ pc' = "bc" /\ q' = q
       /\ Ez' = Ez /\ probes' = probes
       /\ \A i \in 0..(N - 2) :
             Hy'[i] = IF i = PyIdx(sourcePos - 1, N - 1)
                      THEN FSub(Hy[i],
                                FMul(FDiv(Sc, FMul(W0, mu[i])),
                                     getField(source, R(0), R(q))))
                      ELSE Hy[i]
    \/ /\ pc = "bc" /\ pc' = "Ez" /\ q' = q
       /\ Hy' = Hy /\ probes' = probes
       /\ Ez'[0] = Ez[1] /\ Ez'[N - 1] = Ez[N - 2]
       /\ \A i \in 1..(N - 2) : Ez'[i] = Ez[i]
    \/ /\ pc = "Ez" /\ pc' = "tfsfEz" /\ q' = q
       /\ Hy' = Hy /\ probes' = probes
       /\ Ez'[0] = Ez[0] /\ Ez'[N - 1] = Ez[N - 1]
       /\ \A i \in 1..(N - 2) :
             Ez'[i] = FAdd(FMul(ceze[i], Ez[i]),
                           FMul(cezh[i], FSub(Hy[i], Hy[i - 1])))
    \/ /\ pc = "tfsfEz" /\ pc' = "probes" /\ q' = q
       /\ Hy' = Hy /\ probes' = probes
       /\ \A i \in 0..(N - 1) :
             Ez'[i] = IF i = PyIdx(sourcePos, N)
                      THEN FAdd(Ez[i],
                                FMul(FDiv(Sc, FSqrt(FMul(eps[i], At(mu, sourcePos)))),
                                     getField(source, <<-1, 2>>, <<2 * q + 1, 2>>)))
                      ELSE Ez[i]
    \/ /\ pc = "probes" /\ q' = q + 1
       /\ pc' = IF q + 1 < cfg.maxTime THEN "Hy" ELSE "done"
       /\ Hy' = Hy /\ Ez' = Ez
       /\ \A k \in DOMAIN probes : probes'[k].time = probes[k].time + 1

\* C1: every step taken inside the loop is the next statement in order
C1_StepOrder ==
    [][ (pc \in LoopPcs /\ pc' # "raised")
            => (q \in 0..(cfg.maxTime - 1) /\ C1_Statement) ]_vars

C1_Witness ==
    pc = "probes" /\ q >= 1 /\ ~AllZero(Hy) /\ ~IsZero(At(Ez, sourcePos))

\* ------------------------------------------------------------------------
\* C2: whenever the field arrays exist, Hy has exactly one element fewer
\* than Ez, and a grid for which this is impossible (no cell at all) is
\* rejected by the construction.
\* ------------------------------------------------------------------------
C2_HyOneShorter ==
    /\ Constructed => ALen(Hy) = ALen(Ez) - 1
    /\ (pc \in LoopPcs \/ pc = "done") => (Constructed /\ N >= 1)

C2_Witness ==
    pc = "tfsfHy" /\ q >= 1 /\ ALen(Ez) = MaxSize /\ ALen(Hy) = MaxSize - 1
    /\ ~AllZero(Hy)

\* ------------------------------------------------------------------------
\* C3: each probe gets exactly one addData per time step, after the E-side
\* TFSF correction: while step q runs a probe holds q samples, recorded
\* samples are never changed, the sample of step q is the field after the
\* E-side correction, and at the end both series hold maxTime samples.
\* ------------------------------------------------------------------------
C3_Count ==
    \A k \in DOMAIN probes :
        /\ (pc \in LoopPcs \/ pc = "done") => probes[k].time = q
        /\ pc = "done" =>
              /\ probes[k].time = cfg.maxTime
              /\ ALen(probes[k].E) = cfg.maxTime
              /\ ALen(probes[k].H) = cfg.maxTime

C3_Append ==
    \A k \in DOMAIN probes :
        /\ \A j \in 0..(probes[k].time - 1) :
              /\ probes'[k].E[j] = probes[k].E[j]
              /\ probes'[k].H[j] = probes[k].H[j]
        /\ pc = "probes" =>
              /\ probes'[k].time = probes[k].time + 1
              /\ probes'[k].E[q] = Ez[probes[k].position]
              /\ probes'[k].H[q] = Hy[probes[k].position]
        /\ pc # "probes" => probes'[k] = probes[k]

\* C3: one sample per probe and step, appended after the E-side correction
C3_OneSamplePerStep == [](C3_Count) /\ [][C3_Append]_vars

C3_Witness ==
    /\ pc = "done" /\ Len(probes) = 2
    /\ \E k \in DOMAIN probes : \E j \in 0..(cfg.maxTime - 1) :
          ~IsZero(probes[k].E[j])

\* ------------------------------------------------------------------------
\* C4: with an all-zero medium (eps, mu and loss zero in every cell) and a
\* source whose getField is zero everywhere, every cell of Ez and Hy is
\* zero after every statement of every time step.
\* ------------------------------------------------------------------------
AllZeroMedium ==
    /\ cfg.eps0 = R(0) /\ cfg.eps1 = R(0) /\ cfg.eps2 = R(0)
    /\ cfg.eps3 = R(0) /\ cfg.muValue = R(0) /\ cfg.lossValue = R(0)

\* C4: all-zero medium and zero source leave Ez and Hy identically zero
C4_ZeroStaysZero ==
    (AllZeroMedium /\ cfg.pulse = "zero" /\ Constructed)
        => (AllZero(Ez) /\ AllZero(Hy))

\* ------------------------------------------------------------------------
\* C5: an invalid configuration (loss or layer ranges outside [0, N) or
\* overlapping, source or probe outside [0, N), probe at the last cell) is
\* detected before the first time step: no statement of the loop runs, no
\* field cell is updated and no probe sample is recorded.
\* ------------------------------------------------------------------------
ConfigValid(c) ==
    /\ c.maxSize >= 1
    /\ 0 <= c.layer_loss_x_left
    /\ c.layer_loss_x_left <= c.layer_loss_x_right
    /\ c.layer_loss_x_right <= c.maxSize
    /\ 0 <= layer_0(c) /\ layer_0(c) <= layer_1(c)
    /\ layer_1(c) <= layer_2(c) /\ layer_2(c) <= c.maxSize
    /\ c.sourcePos >= 0 /\ c.sourcePos <= c.maxSize - 1
    /\ \A k \in DOMAIN c.probesPos :
          c.probesPos[k] >= 0 /\ c.probesPos[k] <= c.maxSize - 2

\* C5: an invalid configuration never gets past the construction
C5_InvalidConfigAborts ==
    ~ConfigValid(cfg) =>
        /\ pc \in {"start", "raised"}
        /\ q = 0
        /\ AllZero(Ez) /\ AllZero(Hy)
        /\ \A k \in DOMAIN probes : probes[k].time = 0

\* ------------------------------------------------------------------------
\* C6: when a coefficient or a field value is NaN or infinite the run
\* stops: no time step starts on corrupted fields and no NaN/Inf sample is
\* ever recorded in a probe.
\* ------------------------------------------------------------------------
C6_NumericalErrorStops ==
    /\ (pc \in LoopPcs \/ pc = "done") =>
          /\ AllFinite(ceze) /\ AllFinite(cezh)
          /\ AllFinite(chyh) /\ AllFinite(chye)
    /\ (pc = "Hy" /\ q >= 1) => (AllFinite(Ez) /\ AllFinite(Hy))
    /\ \A k \in DOMAIN probes : \A j \in 0..(probes[k].time - 1) :
          IsFinite(probes[k].E[j]) /\ IsFinite(probes[k].H[j])

\* ------------------------------------------------------------------------
\* C7: lossless homogeneous medium, Sc = 1, source far from both ends.
\* After q completed steps the pulse has advanced at most q cells.
\* ------------------------------------------------------------------------
HomogeneousLossless ==
    /\ cfg.eps0 = R(1) /\ cfg.eps1 = R(1) /\ cfg.eps2 = R(1)
    /\ cfg.eps3 = R(1) /\ cfg.muValue = R(1) /\ cfg.lossValue = R(0)

\* the pulse has not yet reached either end of the grid
FarFromEnds == sourcePos - q >= 1 /\ sourcePos + q <= N - 2

C7_Case == Constructed /\ HomogeneousLossless /\ Sc = R(1) /\ StepDone /\ FarFromEnds

\* C7 as stated: after every time step Ez[sourcePos + k] equals
\* Ez[sourcePos - k] up to sign for every k inside the region reached.
C7_Symmetric ==
    C7_Case =>
        \A k \in 1..q :
            \/ Ez[sourcePos + k] = Ez[sourcePos - k]
            \/ Ez[sourcePos + k] = FNeg(Ez[sourcePos - k])

\* C7 amended: the TFSF source launches the pulse towards +x only: after
\* every time step the cells left of the source are zero and the cell k to
\* the right holds the incident wave getField(k, q).
C7_OneDirection ==
    C7_Case =>
        /\ \A k \in 1..q : IsZero(Ez[sourcePos - k])
        /\ \A k \in 0..q : Ez[sourcePos + k] = getField(source, R(k), R(q))

C7_Witness ==
    /\ C7_Case /\ q >= 3 /\ cfg.pulse = "gauss"
    /\ ~IsZero(Ez[sourcePos + 1]) /\ ~IsZero(Ez[sourcePos + 2])
    /\ IsZero(Ez[sourcePos - 1])

\* ------------------------------------------------------------------------
\* C8: loss and the averaging at the two edges of the absorbing regions,
\* for regions [0, left) and [right, N) with a lossless gap between them
\* and a nonzero loss value.  The edge cells are those the code averages:
\* layer_loss_x_left and layer_loss_x_right.
\* ------------------------------------------------------------------------
C8_Case ==
    /\ Constructed
    /\ cfg.layer_loss_x_left >= 1
    /\ cfg.layer_loss_x_left + 1 < cfg.layer_loss_x_right
    /\ cfg.layer_loss_x_right <= N - 2
    /\ cfg.lossValue # R(0)

C8_Edges == { cfg.layer_loss_x_left, cfg.layer_loss_x_right }

LossExactlyInRegions ==
    \A i \in 0..(N - 1) :
        ~IsZero(loss[i]) <=>
            (i < cfg.layer_loss_x_left \/ i >= cfg.layer_loss_x_right)

MeanOfNeighbours(a, k) == a[k] = FDiv(FAdd(a[k - 1], a[k + 1]), R(2))

\* C8 as stated: loss is nonzero exactly inside the two regions and at
\* both edges each of ceze, cezh, chyh, chye is the mean of its neighbours.
C8_AllAveraged ==
    C8_Case =>
        /\ LossExactlyInRegions
        /\ \A k \in C8_Edges :
              /\ MeanOfNeighbours(ceze, k) /\ MeanOfNeighbours(cezh, k)
              /\ MeanOfNeighbours(chyh, k) /\ MeanOfNeighbours(chye, k)

\* C8 amended: loss is nonzero exactly inside the two regions; at both
\* edges ceze and cezh are the mean of their neighbours, while chyh and
\* chye are not averaged: in every cell they are (1 - loss) / (1 + loss)
\* and 1 / (W0 * (1 + loss)).
C8_EAveraged ==
    C8_Case =>
        /\ LossExactlyInRegions
        /\ \A k \in C8_Edges :
              MeanOfNeighbours(ceze, k) /\ MeanOfNeighbours(cezh, k)
        /\ \A i \in 0..(N - 1) :
              /\ chyh[i] = FDiv(FSub(R(1), loss[i]), FAdd(R(1), loss[i]))
              /\ chye[i] = FDiv(R(1), FMul(W0, FAdd(R(1), loss[i])))

C8_Witness ==
    /\ C8_Case /\ pc = "Hy" /\ cfg.lossValue = <<1, 3>>
    /\ ceze[cfg.layer_loss_x_left] = <<3, 4>>
    /\ chyh[cfg.layer_loss_x_left] = R(1)
    /\ ~MeanOfNeighbours(chyh, cfg.layer_loss_x_left)

\* ------------------------------------------------------------------------
\* C9: finite propagation speed, for any medium and any source values:
\* when q time steps have completed, Ez[i] is zero for |i - sourcePos| > q
\* and Hy[i] is zero for |i - (sourcePos - 1)| > q, and a probe at
\* distance d from the source has recorded zero in every step before d - 1.
\* ------------------------------------------------------------------------
C9_FinitePropagation ==
    (Constructed /\ SourceInside /\ StepDone) =>
        /\ \A i \in 0..(N - 1) :
              AbsI(i - sourcePos) > q => IsZero(Ez[i])
        /\ \A i \in 0..(N - 2) :
              AbsI(i - (sourcePos - 1)) > q => IsZero(Hy[i])
        /\ \A k \in DOMAIN probes : \A j \in 0..(probes[k].time - 1) :
              j < AbsI(probes[k].position - sourcePos) - 1
                  => IsZero(probes[k].E[j])

\* ------------------------------------------------------------------------
\* C10: with the source strictly inside the grid, the E bulk update and the
\* E-side TFSF correction leave Ez[0] and Ez[N-1] alone, so at the end of
\* every time step q >= 1 they hold the values Ez[1] and Ez[N-2] had at the
\* end of step q - 1.
\* ------------------------------------------------------------------------
C10_DelayedCopy ==
    (Constructed /\ SourceInside /\ q >= 1 /\ pc \in {"Ez", "tfsfEz", "probes"})
        => (Ez[0] = EzEnd[1] /\ Ez[N - 1] = EzEnd[N - 2])

C10_Frame ==
    (SourceInside /\ pc \in {"Ez", "tfsfEz"})
        => (Ez'[0] = Ez[0] /\ Ez'[N - 1] = Ez[N - 1])

\* C10: the end cells are one-step-delayed copies of their neighbours
C10_EndCells == [](C10_DelayedCopy) /\ [][C10_Frame]_vars

C10_Witness ==
    /\ SourceInside /\ q >= 1 /\ pc = "probes"
    /\ ~IsZero(Ez[0]) /\ Ez[0] = EzEnd[1] /\ Ez[0] # Ez[1]

====
